---- MODULE Spec2Model ----
(***************************************************************************)
(* A model of the feedback service of src/server.js: the in-memory         *)
(* collection feedbackStore, its mirror in the data file, the five route   *)
(* handlers, and the asynchronous file writes they await.                  *)
(*                                                                         *)
(* A JavaScript string is a sequence of one-character strings.  A request  *)
(* body field is a JavaScript value [t, s]: t is its type ("undefined",    *)
(* "string" or "number") and s its text.  A feedback object is a record    *)
(* with the six fields of lines 107-114 and, as oid, its identity as a     *)
(* JavaScript object (two objects with equal fields are still two objects).*)
(***************************************************************************)
EXTENDS Integers, Sequences, FiniteSets, TLC

\* ------------------------------------------------------------------ bounds

\* Most create, vote and delete requests the model lets change feedbackStore.
MaxRequests == 3
\* Longest feedbackStore the model lets a create request extend.
MaxLen == 2
\* Most handlers suspended at their file write at once.
MaxPending == 2
\* Date.now() ranges over 0..MaxClock (milliseconds since the first start).
MaxClock == 1
\* Most times the process is started again.
MaxRestarts == 1

\* ----------------------------------------------------------------- strings

\* String.prototype.trim's white space, within the model's alphabet.
IsSpace(c) == c = " "

RECURSIVE TrimStart(_)
TrimStart(s) ==
  IF s # <<>> /\ IsSpace(Head(s)) THEN TrimStart(Tail(s)) ELSE s

RECURSIVE TrimEnd(_)
TrimEnd(s) ==
  IF s # <<>> /\ IsSpace(s[Len(s)]) THEN TrimEnd(SubSeq(s, 1, Len(s) - 1)) ELSE s

\* s.trim()
Trim(s) == TrimEnd(TrimStart(s))

UpperChars == <<"A", "B", "C", "D", "E", "F", "G", "H", "I", "J", "K", "L", "M",
                "N", "O", "P", "Q", "R", "S", "T", "U", "V", "W", "X", "Y", "Z">>
LowerChars == <<"a", "b", "c", "d", "e", "f", "g", "h", "i", "j", "k", "l", "m",
                "n", "o", "p", "q", "r", "s", "t", "u", "v", "w", "x", "y", "z">>

LowerChar(c) ==
  IF \E i \in 1..Len(UpperChars) : UpperChars[i] = c
  THEN LowerChars[CHOOSE i \in 1..Len(UpperChars) : UpperChars[i] = c]
  ELSE c

\* s.toLowerCase()
ToLowerCase(s) == [i \in 1..Len(s) |-> LowerChar(s[i])]

Base36Chars == <<"0", "1", "2", "3", "4", "5", "6", "7", "8", "9">> \o LowerChars

\* n.toString(radix) of an integer n >= 0, over the digits 0-9a-z.
RECURSIVE ToRadix(_, _)
ToRadix(n, radix) ==
  IF n < radix THEN <<Base36Chars[n + 1]>>
  ELSE ToRadix(n \div radix, radix) \o <<Base36Chars[(n % radix) + 1]>>

\* The text JSON.stringify gives an integer.
NumberText(n) == IF n < 0 THEN <<"-">> \o ToRadix(-n, 10) ELSE ToRadix(n, 10)

DigitValue(c) == (CHOOSE i \in 1..10 : Base36Chars[i] = c) - 1

RECURSIVE ParseDigits(_, _)
ParseDigits(s, acc) ==
  IF s = <<>> THEN acc ELSE ParseDigits(Tail(s), 10 * acc + DigitValue(Head(s)))

\* The integer JSON.parse reads from a number's text.
ParseNumber(s) ==
  IF Head(s) = "-" THEN -ParseDigits(Tail(s), 0) ELSE ParseDigits(s, 0)

\* A stringify that escapes nothing.
EscapeNothing(s) == s

\* JSON.stringify's escaping of a string's characters: \" and \\.
RECURSIVE Escape(_)
Escape(s) ==
  IF s = <<>> THEN <<>>
  ELSE (IF Head(s) \in {"\"", "\\"} THEN <<"\\", Head(s)>> ELSE <<Head(s)>>)
       \o Escape(Tail(s))

RECURSIVE Unescape(_)
Unescape(s) ==
  IF s = <<>> THEN <<>>
  ELSE IF Head(s) = "\\" /\ Len(s) >= 2 THEN <<s[2]>> \o Unescape(Tail(Tail(s)))
  ELSE <<Head(s)>> \o Unescape(Tail(s))

\* The text JSON.stringify gives a string: quoted and escaped.
StringText(s) == <<"\"">> \o Escape(s) \o <<"\"">>

\* The string JSON.parse reads from a quoted text.
ParseString(t) == Unescape(SubSeq(t, 2, Len(t) - 1))

\* ------------------------------------------------------- JavaScript values

Undefined == [t |-> "undefined", s |-> <<>>]
Str(s) == [t |-> "string", s |-> s]
\* A body field that is a number, not a string: the number 7.
Num7 == [t |-> "number", s |-> <<"7">>]

\* Truthy without the empty string being falsy.
TruthyEmptyString(v) == v.t # "undefined"

\* !v is false: v is neither undefined nor the empty string (7 is truthy).
Truthy(v) == v.t = "number" \/ (v.t = "string" /\ v.s # <<>>)

\* String(v), the coercion RegExp.prototype.test applies to its argument.
ToStr(v) == IF v.t = "undefined" THEN <<"u", "n", "d", "e", "f", "i", "n", "e", "d">> ELSE v.s

\* [^\s@]
NotSpaceOrAt(c) == ~IsSpace(c) /\ c # "@"

\* /^[^\s@]+@[^\s@]+\.[^\s@]+$/.test(email): the string splits as
\* local "@" domain "." tld with the three parts non-empty and free of white
\* space and "@" (a "." may also occur inside any part).
isValidEmail(email) ==
  LET s == ToStr(email)
  IN \E i \in 1..Len(s), j \in 1..Len(s) :
       /\ 1 < i /\ i + 1 < j /\ j < Len(s)
       /\ s[i] = "@"
       /\ s[j] = "."
       /\ \A k \in (1..Len(s)) \ {i} : NotSpaceOrAt(s[k])

\* Line 99's bound on the trimmed message.
MinMessageLength == 5

\* ---------------------------------------------------------------- records

\* Math.random().toString(36).substr(2): the texts the model draws from.
RandomTexts == {<<"x">>, <<"y">>}

\* generateId(): Date.now() in base 36, then the random text.
generateId(now, random) == ToRadix(now, 36) \o random

\* new Date(now).toISOString(), abridged to the millisecond count between
\* the "T" and the "Z".
toISOString(now) == <<"T">> \o ToRadix(now, 10) \o <<"Z">>

\* The object literal of lines 107-114, allocated as object oid; its two
\* readings of the clock fall in the same millisecond.
NewFeedback(oid, body, now, random) ==
  [oid       |-> oid,
   id        |-> generateId(now, random),
   name      |-> Trim(body.name.s),
   email     |-> ToLowerCase(Trim(body.email.s)),
   message   |-> Trim(body.message.s),
   votes     |-> 0,
   createdAt |-> toISOString(now)]

\* What JSON shows of an object: its six fields, not its identity.
ToJSON(r) ==
  [id |-> r.id, name |-> r.name, email |-> r.email, message |-> r.message,
   votes |-> r.votes, createdAt |-> r.createdAt]

\* JSON.stringify of one feedback object: each field's text.
StringifyRecord(r) ==
  [id        |-> StringText(r.id),
   name      |-> StringText(r.name),
   email     |-> StringText(r.email),
   message   |-> StringText(r.message),
   votes     |-> NumberText(r.votes),
   createdAt |-> StringText(r.createdAt)]

\* JSON.stringify(data, null, 2) of the collection: the array of its texts.
JSONstringify(data) == [i \in 1..Len(data) |-> StringifyRecord(data[i])]

\* JSON.parse of one object's text; the new object is allocated as oid.
ParseRecord(t, oid) ==
  [oid       |-> oid,
   id        |-> ParseString(t.id),
   name      |-> ParseString(t.name),
   email     |-> ParseString(t.email),
   message   |-> ParseString(t.message),
   votes     |-> ParseNumber(t.votes),
   createdAt |-> ParseString(t.createdAt)]

\* JSON.parse of the array's text: objects 1..n in array order.
JSONparse(text) == [i \in 1..Len(text) |-> ParseRecord(text[i], i)]

\* ------------------------------------------------------------------- file

\* The data file: absent, the text of a completed write, or text that is
\* no JSON (a write cut short, or two writes' bytes mixed).
Absent == [kind |-> "absent", text |-> <<>>]
Written(text) == [kind |-> "json", text |-> text]
Garbled == [kind |-> "garbled", text |-> <<>>]

\* A load that gives the empty array whatever the file holds.
LoadAlwaysEmpty(f) == <<>>

\* loadFeedbackData(): the parsed file, or [] when readFile or JSON.parse throws.
loadFeedbackData(f) == IF f.kind = "json" THEN JSONparse(f.text) ELSE <<>>

\* ------------------------------------------------------------------- sort

\* Insert r into the sorted list s after every element e with
\* compare(e, r) <= 0, that is with e.votes >= r.votes.
\* The comparator with its operands exchanged: ascending votes.
CompareVotesAscending(a, b) == a.votes - b.votes

\* The comparator (a, b) => b.votes - a.votes.
CompareVotes(a, b) == b.votes - a.votes

\* Insert r, which follows all of s in the array, into the sorted list s:
\* before the first element e with CompareVotes(r, e) < 0.
RECURSIVE InsertSorted(_, _)
InsertSorted(s, r) ==
  IF s = <<>> THEN <<r>>
  ELSE IF CompareVotes(r, Head(s)) < 0 THEN <<r>> \o s
  ELSE <<Head(s)>> \o InsertSorted(Tail(s), r)

\* [...a].sort((a, b) => b.votes - a.votes): Array.prototype.sort is stable,
\* so the result is that of inserting the elements in array order.
RECURSIVE SortByVotes(_)
SortByVotes(a) ==
  IF a = <<>> THEN <<>>
  ELSE InsertSorted(SortByVotes(SubSeq(a, 1, Len(a) - 1)), a[Len(a)])

\* --------------------------------------------------------------- requests

NoBody == [name |-> Undefined, email |-> Undefined, message |-> Undefined]
NoRequest == [id |-> <<>>, action |-> "", body |-> NoBody]

GoodBody ==
  [name    |-> Str(<<" ", "A", "l">>),
   email   |-> Str(<<"A", "@", "b", ".", "c">>),
   message |-> Str(<<" ", "h", "e", "l", "l", "o">>)]

\* The request bodies the model posts.
Bodies ==
  { GoodBody,
    [GoodBody EXCEPT !.name = Str(<<" ">>),
                     !.email = Str(<<"a", "@", "b", ".", "c">>),
                     !.message = Str(<<"h", "i", "\"", "\\", "!">>)],
    [GoodBody EXCEPT !.name = Str(<<>>)],
    [GoodBody EXCEPT !.name = Num7],
    [GoodBody EXCEPT !.email = Undefined],
    [GoodBody EXCEPT !.email = Num7],
    [GoodBody EXCEPT !.email = Str(<<"a", "b", ".", "c">>)],
    [GoodBody EXCEPT !.email = Str(<<"a", "@", "b", "c">>)],
    [GoodBody EXCEPT !.email = Str(<<"a", "@", "b", ".", "c", " ">>)],
    [GoodBody EXCEPT !.message = Str(<<>>)],
    [GoodBody EXCEPT !.message = Num7],
    [GoodBody EXCEPT !.message = Str(<<" ", "h", "i", " ", " ">>)],
    [GoodBody EXCEPT !.name = Num7, !.message = Str(<<"h", "i">>)],
    [GoodBody EXCEPT !.email = Str(<<"@", "b", ".", "c">>), !.message = Num7] }

\* An id generateId never gives.
UnknownId == <<"n", "o", "n", "e">>

\* The ids the model asks for: those of the collection, and one unknown.
RequestIds(store) == { store[i].id : i \in 1..Len(store) } \cup { UnknownId }

\* The request body's action: the two valid ones, another string, and "" for
\* a missing or empty action.
Actions == {"upvote", "downvote", "sideways", ""}

\* ------------------------------------------------------------------ state

VARIABLES
  feedbackStore,  \* line 42: the array of feedback objects
  file,           \* the contents of DATA_FILE
  pending,        \* the handlers suspended at await saveFeedbackData(...)
  clock,          \* the last reading of Date.now(); a later one is no smaller
  phase,          \* "starting" until startServer has loaded the file, then "listening"
  last,           \* the response the step just taken sent, NoResponse if none
  hist,           \* per object of this process: how it was allocated, its id, its
                  \* votes then, and the upvotes and downvotes applied to it since
  restarts,       \* how often the process has been started again
  requests        \* how many requests have changed feedbackStore

vars == <<feedbackStore, file, pending, clock, phase, last, hist, restarts, requests>>

NoResponse ==
  [route |-> "none", status |-> 0, success |-> FALSE, message |-> "",
   data |-> <<>>, count |-> 0]

\* res.status(status).json({success, message, data, count}) of a route's
\* handler; data is the list of the JSON objects sent (one for a single
\* record), count the count sent.
Response(route, status, message, data, count) ==
  [route |-> route, status |-> status, success |-> status < 400,
   message |-> message, data |-> data, count |-> count]

\* A lookup that falls back to the first object when none has the id.
FindIndexOrFirst(store, id) ==
  IF \E i \in 1..Len(store) : store[i].id = id
  THEN CHOOSE i \in 1..Len(store) :
         store[i].id = id /\ \A j \in 1..(i - 1) : store[j].id # id
  ELSE IF store # <<>> THEN 1 ELSE 0

\* item => item.id === id, as findIndex uses it: the first index, 0 for none.
FindIndex(store, id) ==
  IF \E i \in 1..Len(store) : store[i].id = id
  THEN CHOOSE i \in 1..Len(store) :
         store[i].id = id /\ \A j \in 1..(i - 1) : store[j].id # id
  ELSE 0

\* splice(i, 2): the i-th element and the one after it are removed.
RemoveTwoAt(a, i) == SubSeq(a, 1, i - 1) \o SubSeq(a, i + 2, Len(a))

\* array.splice(i, 1) leaves the array without its i-th element.
RemoveAt(a, i) == SubSeq(a, 1, i - 1) \o SubSeq(a, i + 1, Len(a))

\* A vote that never takes the votes below zero.
ApplyVoteFloored(votes, action) ==
  IF action = "upvote" THEN votes + 1 ELSE IF votes > 0 THEN votes - 1 ELSE 0

\* Lines 155-159: feedback.votes += 1 for "upvote", -= 1 otherwise.
ApplyVote(votes, action) == IF action = "upvote" THEN votes + 1 ELSE votes - 1

\* An assignment that reaches every object of the array.
SetVotesOfAll(store, i, votes) == [j \in 1..Len(store) |-> [store[j] EXCEPT !.votes = votes]]

\* The array after the assignment to the votes of its i-th object.
SetVotes(store, i, votes) == [store EXCEPT ![i].votes = votes]

\* The text a completed write of the collection leaves in the file.
TextOf(store) == Written(JSONstringify(store))

\* A handler suspended at await saveFeedbackData(feedbackStore): its route and
\* request, the text JSON.stringify made of the array before fs.writeFile was
\* called, and the object its response will carry.  synced records, for the
\* properties, whether the file held the collection when the request began.
Suspended(route, req, store, rec, synced) ==
  [route |-> route, req |-> req, data |-> JSONstringify(store), rec |-> rec,
   synced |-> synced]

\* A handler's reference to object oid sees the object's current votes.
Retarget(p, oid, votes) ==
  [i \in 1..Len(p) |->
     IF p[i].rec.oid = oid THEN [p[i] EXCEPT !.rec.votes = votes] ELSE p[i]]

Init ==
  /\ feedbackStore = <<>>
  /\ file = Absent
  /\ pending = <<>>
  /\ clock = 0
  /\ phase = "starting"
  /\ last = NoResponse
  /\ hist = <<>>
  /\ restarts = 0
  /\ requests = 0

\* ---------------------------------------------------------------- actions

\* A handler that answers at once and touches nothing else.
Reply(response) ==
  /\ last' = response
  /\ UNCHANGED <<feedbackStore, file, pending, clock, phase, hist, restarts, requests>>

\* res.json(...) has written the response and the handler has returned to the
\* event loop, which is free for the next step.  (A step that sends a response
\* leaves it in last; this step clears it, so last is always the response of
\* the step just taken.)
ResponseSent ==
  /\ last # NoResponse
  /\ last' = NoResponse
  /\ UNCHANGED <<feedbackStore, file, pending, clock, phase, hist, restarts, requests>>

\* startServer(): initializeData() loads the file into feedbackStore, then
\* the server listens.  Loading a missing or unparsable file gives [].
StartServer ==
  /\ last = NoResponse
  /\ phase = "starting"
  /\ feedbackStore' = loadFeedbackData(file)
  /\ hist' = [i \in 1..Len(feedbackStore') |->
                [how |-> "load", id |-> feedbackStore'[i].id,
                 base |-> feedbackStore'[i].votes, up |-> 0, down |-> 0]]
  /\ phase' = "listening"
  /\ last' = NoResponse
  /\ UNCHANGED <<file, pending, clock, restarts, requests>>

\* The process ends and is started again (line 243 runs anew): memory and
\* the suspended handlers are gone.  A write in progress may have reached
\* the file, not reached it, or reached it in part.
Crash ==
  /\ last = NoResponse
  /\ phase = "listening"
  /\ restarts < MaxRestarts
  /\ restarts' = restarts + 1
  /\ phase' = "starting"
  /\ feedbackStore' = <<>>
  /\ pending' = <<>>
  /\ hist' = <<>>
  /\ last' = NoResponse
  /\ file' \in {file} \cup (IF pending = <<>> THEN {}
                            ELSE {Garbled} \cup {Written(pending[k].data) : k \in 1..Len(pending)})
  /\ UNCHANGED <<clock, requests>>

\* A list route that sorts feedbackStore itself, not a copy.
GetFeedbackSortsInPlace ==
  /\ last = NoResponse
  /\ phase = "listening"
  /\ feedbackStore' = SortByVotes(feedbackStore)
  /\ last' = Response("GET /feedback", 200, "",
                      [i \in 1..Len(feedbackStore') |-> ToJSON(feedbackStore'[i])],
                      Len(feedbackStore'))
  /\ UNCHANGED <<file, pending, clock, phase, hist, restarts, requests>>

\* GET /feedback
GetFeedback ==
  /\ last = NoResponse
  /\ phase = "listening"
  /\ LET sortedFeedback == SortByVotes(feedbackStore)
     IN Reply(Response("GET /feedback", 200, "",
                       [i \in 1..Len(sortedFeedback) |-> ToJSON(sortedFeedback[i])],
                       Len(sortedFeedback)))

\* A health route that counts the records of the file.
GetHealthOfFile ==
  /\ last = NoResponse
  /\ phase = "listening"
  /\ Reply(Response("GET /health", 200, "Server is running", <<>>,
                    Len(loadFeedbackData(file))))

\* GET /health
GetHealth ==
  /\ last = NoResponse
  /\ phase = "listening"
  /\ Reply(Response("GET /health", 200, "Server is running", <<>>,
                    Len(feedbackStore)))

\* POST /feedback, up to its await: the checks of lines 85-104 and, when they
\* pass, the push and the call of saveFeedbackData, whose JSON.stringify reads
\* the array before the handler suspends.  The clock is read here and nowhere
\* else, so time passes between two requests as the later reading being larger.  A body field that is no string
\* makes .trim() throw a TypeError, which the catch answers with 500.
PostFeedback(body) ==
  /\ last = NoResponse
  /\ phase = "listening"
  /\ LET req == [NoRequest EXCEPT !.body = body]
         route == "POST /feedback"
     IN IF ~Truthy(body.name) \/ ~Truthy(body.email) \/ ~Truthy(body.message)
        THEN Reply(Response(route, 400, "Name, email, and message are required fields",
                            <<>>, 0))
        ELSE IF ~isValidEmail(body.email)
        THEN Reply(Response(route, 400, "Please provide a valid email address",
                            <<>>, 0))
        ELSE IF body.message.t # "string"
        THEN Reply(Response(route, 500, "Error creating feedback", <<>>, 0))
        ELSE IF Len(Trim(body.message.s)) < MinMessageLength
        THEN Reply(Response(route, 400,
                            "Feedback message must be at least 5 characters long",
                            <<>>, 0))
        ELSE IF body.name.t # "string" \/ body.email.t # "string"
        THEN Reply(Response(route, 500, "Error creating feedback", <<>>, 0))
        ELSE /\ requests < MaxRequests
             /\ Len(feedbackStore) < MaxLen
             /\ Len(pending) < MaxPending
             /\ \E random \in RandomTexts, now \in clock..MaxClock :
                  LET newFeedback == NewFeedback(Len(hist) + 1, body, now, random)
                  IN /\ feedbackStore' = Append(feedbackStore, newFeedback)
                     /\ hist' = Append(hist, [how |-> "post", id |-> newFeedback.id,
                                              base |-> 0, up |-> 0, down |-> 0])
                     /\ pending' = Append(pending,
                                          Suspended(route, req, feedbackStore',
                                                    newFeedback,
                                                    file = TextOf(feedbackStore)))
                     /\ clock' = now
             /\ requests' = requests + 1
             /\ last' = NoResponse
             /\ UNCHANGED <<file, phase, restarts>>

\* A vote handler that looks the id up before it checks the action.
VoteFeedbackLookupFirst(id, action) ==
  /\ last = NoResponse
  /\ phase = "listening"
  /\ LET route == "PUT /feedback/:id/vote"
     IN IF FindIndex(feedbackStore, id) = 0
        THEN Reply(Response(route, 404, "Feedback not found", <<>>, 0))
        ELSE /\ action \notin {"upvote", "downvote"}
             /\ Reply(Response(route, 400,
                               "Action must be either \"upvote\" or \"downvote\"",
                               <<>>, 0))

\* PUT /feedback/:id/vote, up to its await.
VoteFeedback(id, action) ==
  /\ last = NoResponse
  /\ phase = "listening"
  /\ LET req == [NoRequest EXCEPT !.id = id, !.action = action]
         route == "PUT /feedback/:id/vote"
         i == FindIndex(feedbackStore, id)
     IN IF action = "" \/ action \notin {"upvote", "downvote"}
        THEN Reply(Response(route, 400, "Action must be either \"upvote\" or \"downvote\"",
                            <<>>, 0))
        ELSE IF i = 0
        THEN Reply(Response(route, 404, "Feedback not found", <<>>, 0))
        ELSE LET feedback == feedbackStore[i]
                 votes == ApplyVote(feedback.votes, action)
             IN /\ requests < MaxRequests
                /\ Len(pending) < MaxPending
                /\ feedbackStore' = SetVotes(feedbackStore, i, votes)
                /\ hist' = IF action = "upvote"
                           THEN [hist EXCEPT ![feedback.oid].up = @ + 1]
                           ELSE [hist EXCEPT ![feedback.oid].down = @ + 1]
                /\ pending' = Append(Retarget(pending, feedback.oid, votes),
                                     Suspended(route, req, feedbackStore',
                                               feedbackStore'[i],
                                               file = TextOf(feedbackStore)))
                /\ requests' = requests + 1
                /\ last' = NoResponse
                /\ UNCHANGED <<file, clock, phase, restarts>>

\* A DELETE handler that answers before it awaits the write.
DeleteFeedbackAnswersFirst(id) ==
  /\ last = NoResponse
  /\ phase = "listening"
  /\ LET req == [NoRequest EXCEPT !.id = id]
         route == "DELETE /feedback/:id"
         feedbackIndex == FindIndex(feedbackStore, id)
     IN /\ feedbackIndex # 0
        /\ requests < MaxRequests
        /\ Len(pending) < MaxPending
        /\ feedbackStore' = RemoveAt(feedbackStore, feedbackIndex)
        /\ pending' = Append(pending,
                             Suspended(route, req, feedbackStore',
                                       feedbackStore[feedbackIndex],
                                       file = TextOf(feedbackStore)))
        /\ requests' = requests + 1
        /\ last' = Response(route, 200, "Feedback deleted successfully",
                            <<ToJSON(feedbackStore[feedbackIndex])>>, 0)
        /\ UNCHANGED <<file, clock, phase, hist, restarts>>

\* DELETE /feedback/:id, up to its await.
DeleteFeedback(id) ==
  /\ last = NoResponse
  /\ phase = "listening"
  /\ LET req == [NoRequest EXCEPT !.id = id]
         route == "DELETE /feedback/:id"
         feedbackIndex == FindIndex(feedbackStore, id)
     IN IF feedbackIndex = 0
        THEN Reply(Response(route, 404, "Feedback not found", <<>>, 0))
        ELSE /\ requests < MaxRequests
             /\ Len(pending) < MaxPending
             /\ feedbackStore' = RemoveAt(feedbackStore, feedbackIndex)
             /\ pending' = Append(pending,
                                  Suspended(route, req, feedbackStore',
                                            feedbackStore[feedbackIndex],
                                            file = TextOf(feedbackStore)))
             /\ requests' = requests + 1
             /\ last' = NoResponse
             /\ UNCHANGED <<file, clock, phase, hist, restarts>>

\* The success response a handler sends after its await.
SuccessResponse(p) ==
  IF p.route = "POST /feedback"
  THEN Response(p.route, 201, "Feedback submitted successfully",
                <<ToJSON(p.rec)>>, 0)
  ELSE IF p.route = "PUT /feedback/:id/vote"
  THEN Response(p.route, 200,
                IF p.req.action = "upvote" THEN "Feedback upvoted successfully"
                ELSE "Feedback downvoted successfully",
                <<ToJSON(p.rec)>>, 0)
  ELSE Response(p.route, 200, "Feedback deleted successfully",
                <<ToJSON(p.rec)>>, 0)

\* A catch block that reports success.
ErrorResponseAsSuccess(p) == Response(p.route, 200, "", <<>>, 0)

\* The 500 of a handler's catch block.
ErrorResponse(p) ==
  Response(p.route, 500,
           IF p.route = "POST /feedback" THEN "Error creating feedback"
           ELSE IF p.route = "PUT /feedback/:id/vote" THEN "Error updating vote"
           ELSE "Error deleting feedback",
           <<>>, 0)

\* What the file may hold when the k-th suspended handler's writeFile
\* resolves: its own text; or, when other writes of the same file are in
\* progress, another write's text or a mix of their bytes.
WriteOutcomes(k) ==
  {Written(pending[k].data)}
    \cup (IF Len(pending) > 1
          THEN {Garbled} \cup {Written(pending[j].data) : j \in 1..Len(pending)}
          ELSE {})

\* A handler that, resumed, replaces the array by the one it had written.
SaveResolvedReloads(k) ==
  /\ last = NoResponse
  /\ k \in 1..Len(pending)
  /\ file' \in WriteOutcomes(k)
  /\ pending' = RemoveAt(pending, k)
  /\ last' = SuccessResponse(pending[k])
  /\ feedbackStore' = JSONparse(pending[k].data)
  /\ UNCHANGED <<clock, phase, hist, restarts, requests>>

\* fs.writeFile resolves: the k-th suspended handler resumes after its await
\* and sends its success response.
SaveResolved(k) ==
  /\ last = NoResponse
  /\ k \in 1..Len(pending)
  /\ file' \in WriteOutcomes(k)
  /\ pending' = RemoveAt(pending, k)
  /\ last' = SuccessResponse(pending[k])
  /\ UNCHANGED <<feedbackStore, clock, phase, hist, restarts, requests>>

\* fs.writeFile rejects: saveFeedbackData rethrows, and the handler's catch
\* answers 500.  The file is as it was, or was truncated before the failure.
SaveRejected(k) ==
  /\ last = NoResponse
  /\ k \in 1..Len(pending)
  /\ file' \in {file, Garbled}
  /\ pending' = RemoveAt(pending, k)
  /\ last' = ErrorResponse(pending[k])
  /\ UNCHANGED <<feedbackStore, clock, phase, hist, restarts, requests>>

Next ==
  \/ ResponseSent
  \/ StartServer
  \/ Crash
  \/ GetFeedback
  \/ GetHealth
  \/ \E body \in Bodies : PostFeedback(body)
  \/ \E id \in RequestIds(feedbackStore), action \in Actions : VoteFeedback(id, action)
  \/ \E id \in RequestIds(feedbackStore) : DeleteFeedback(id)
  \/ \E k \in 1..MaxPending : SaveResolved(k)
  \/ \E k \in 1..MaxPending : SaveRejected(k)

Spec == Init /\ [][Next]_vars

\* The same service when its clients send one request at a time: no request
\* arrives while a handler is suspended at its file write.
SerialNext ==
  \/ ResponseSent
  \/ StartServer
  \/ Crash
  \/ pending = <<>> /\ GetFeedback
  \/ pending = <<>> /\ GetHealth
  \/ pending = <<>> /\ \E body \in Bodies : PostFeedback(body)
  \/ pending = <<>> /\ \E id \in RequestIds(feedbackStore), action \in Actions :
                         VoteFeedback(id, action)
  \/ pending = <<>> /\ \E id \in RequestIds(feedbackStore) : DeleteFeedback(id)
  \/ \E k \in 1..MaxPending : SaveResolved(k)
  \/ \E k \in 1..MaxPending : SaveRejected(k)

SerialSpec == Init /\ [][SerialNext]_vars

\* The same service while every fs.writeFile resolves and the process is
\* restarted only when no write is in progress: requests may still overlap.
WritesSucceedNext ==
  \/ ResponseSent
  \/ StartServer
  \/ pending = <<>> /\ Crash
  \/ GetFeedback
  \/ GetHealth
  \/ \E body \in Bodies : PostFeedback(body)
  \/ \E id \in RequestIds(feedbackStore), action \in Actions : VoteFeedback(id, action)
  \/ \E id \in RequestIds(feedbackStore) : DeleteFeedback(id)
  \/ \E k \in 1..MaxPending : SaveResolved(k)

WritesSucceedSpec == Init /\ [][WritesSucceedNext]_vars

\* ------------------------------------------------------------- properties

MutatingRoutes == {"POST /feedback", "PUT /feedback/:id/vote", "DELETE /feedback/:id"}

\* The identities of the objects of an array, and the object with identity o.
OidsOf(store) == { store[i].oid : i \in 1..Len(store) }
ObjectOf(store, o) == store[CHOOSE i \in 1..Len(store) : store[i].oid = o]

\* What the JSON of an array shows: its objects' fields, in order.
JsonOf(store) == [i \in 1..Len(store) |-> ToJSON(store[i])]

\* A body field that is missing or the empty string.
MissingOrEmpty(v) == v.t = "undefined" \/ (v.t = "string" /\ v.s = <<>>)

\* A body that fails validation: a field missing or empty, an email that does
\* not match local@domain.tld, or a message of fewer than 5 characters once
\* trimmed.
FailsValidation(body) ==
  \/ MissingOrEmpty(body.name)
  \/ MissingOrEmpty(body.email)
  \/ MissingOrEmpty(body.message)
  \/ ~isValidEmail(body.email)
  \/ (body.message.t = "string" /\ Len(Trim(body.message.s)) < 5)

\* The bodies of the model that fail validation.
FailingBodies == { body \in Bodies : FailsValidation(body) }

\* C1: a POST /feedback whose body fails validation is answered with 400, and
\* the collection, the file and the writes in progress stay exactly as they
\* were: no record is created or changed and no file write is issued.
C1_InvalidPostRejected ==
  [][\A body \in FailingBodies :
       PostFeedback(body)
         => /\ last'.route = "POST /feedback"
            /\ last'.status = 400
            /\ feedbackStore' = feedbackStore
            /\ file' = file
            /\ pending' = pending]_vars

\* C1's case: the length rule's 400 answered while the collection holds a
\* record and the file holds a write.
C1_Witness ==
  /\ last.route = "POST /feedback"
  /\ last.status = 400
  /\ last.message = "Feedback message must be at least 5 characters long"
  /\ feedbackStore # <<>>
  /\ file.kind = "json"

UnknownTo(store, id) == \A i \in 1..Len(store) : store[i].id # id

\* C2 as stated: every vote or delete request whose id matches no record is
\* answered with 404 and changes nothing, whatever the vote's action.
C2_UnknownIdAlways404 ==
  [][/\ \A id \in RequestIds(feedbackStore), action \in Actions :
          (UnknownTo(feedbackStore, id) /\ VoteFeedback(id, action))
            => /\ last'.status = 404
               /\ feedbackStore' = feedbackStore
               /\ file' = file
               /\ pending' = pending
     /\ \A id \in RequestIds(feedbackStore) :
          (UnknownTo(feedbackStore, id) /\ DeleteFeedback(id))
            => /\ last'.status = 404
               /\ feedbackStore' = feedbackStore
               /\ file' = file
               /\ pending' = pending]_vars

\* C2, amended: a vote request with action "upvote" or "downvote", or a delete
\* request, whose id matches no record is answered with 404; and every vote or
\* delete request whose id matches no record leaves the collection, the file
\* and the writes in progress unchanged.
C2_UnknownId404 ==
  [][/\ \A id \in RequestIds(feedbackStore), action \in Actions :
          (UnknownTo(feedbackStore, id) /\ VoteFeedback(id, action))
            => /\ action \in {"upvote", "downvote"} => last'.status = 404
               /\ last'.route = "PUT /feedback/:id/vote"
               /\ feedbackStore' = feedbackStore
               /\ file' = file
               /\ pending' = pending
     /\ \A id \in RequestIds(feedbackStore) :
          (UnknownTo(feedbackStore, id) /\ DeleteFeedback(id))
            => /\ last'.status = 404
               /\ last'.route = "DELETE /feedback/:id"
               /\ feedbackStore' = feedbackStore
               /\ file' = file
               /\ pending' = pending]_vars

\* C2's case: a 404 answered while the collection holds two records.
C2_Witness ==
  /\ last.status = 404
  /\ last.route = "DELETE /feedback/:id"
  /\ Len(feedbackStore) = 2

\* C3: every object's votes are its votes at allocation plus its upvotes minus
\* its downvotes (each vote request counted once), and an object created by a
\* POST started at 0: its votes are u - d, negative when d > u.
C3_VotesAreUpsMinusDowns ==
  \A i \in 1..Len(feedbackStore) :
    LET r == feedbackStore[i]
        h == hist[r.oid]
    IN /\ r.votes = h.base + h.up - h.down
       /\ h.how = "post" => h.base = 0 /\ r.votes = h.up - h.down

\* C3's case: a created record taken below zero by two downvotes.
C3_Witness ==
  \E i \in 1..Len(feedbackStore) :
    LET h == hist[feedbackStore[i].oid]
    IN h.how = "post" /\ h.up = 0 /\ h.down = 2 /\ feedbackStore[i].votes = -2

\* The one-to-one maps of 1..n onto itself.
Rearrangements(n) ==
  { p \in [1..n -> 1..n] : \A i, j \in 1..n : p[i] = p[j] => i = j }

\* C4: the response of GET /feedback lists the records of the collection,
\* each once, by votes descending, records of equal votes in their order in
\* the collection; and its count is the list's length.
C4_ListSortedStable ==
  last.route = "GET /feedback" =>
    /\ last.status = 200
    /\ last.count = Len(last.data)
    /\ \E p \in Rearrangements(Len(feedbackStore)) :
         /\ last.data = [k \in 1..Len(feedbackStore) |-> ToJSON(feedbackStore[p[k]])]
         /\ \A k, l \in 1..Len(feedbackStore) :
              k < l => \/ feedbackStore[p[k]].votes > feedbackStore[p[l]].votes
                       \/ /\ feedbackStore[p[k]].votes = feedbackStore[p[l]].votes
                          /\ p[k] < p[l]

\* C4's case: a list whose first record is the collection's second, which
\* has more votes than the first.
C4_Witness ==
  /\ last.route = "GET /feedback"
  /\ Len(feedbackStore) = 2
  /\ feedbackStore[2].votes > feedbackStore[1].votes
  /\ last.data[1] = ToJSON(feedbackStore[2])

\* C5: with requests handled one at a time, once a create, vote or delete
\* request has been answered with success the file parses to exactly the
\* in-memory collection (same records, same fields, same order), which is
\* what loadFeedbackData gives a restart.
C5_FileRoundTrip ==
  (/\ phase = "listening"
   /\ pending = <<>>
   /\ last.route \in MutatingRoutes
   /\ last.status \in {200, 201})
    => /\ file.kind = "json"
       /\ JsonOf(loadFeedbackData(file)) = JsonOf(feedbackStore)

\* C5's case: after a restart that loaded a record whose message holds a
\* quote and a backslash, a further vote has been written.
C5_Witness ==
  /\ restarts = 1
  /\ phase = "listening"
  /\ pending = <<>>
  /\ last.route = "PUT /feedback/:id/vote"
  /\ last.status = 200
  /\ \E i \in 1..Len(feedbackStore) :
       /\ hist[feedbackStore[i].oid].how = "load"
       /\ feedbackStore[i].votes = -1
       /\ feedbackStore[i].message = <<"h", "i", "\"", "\\", "!">>

\* No two objects of the array carry the same id.
DistinctIds(store) ==
  \A i, j \in 1..Len(store) : i # j => store[i].id # store[j].id

C7_UniqueIds == DistinctIds(feedbackStore)

\* C8: every record a POST added has a trimmed, non-empty name, a trimmed,
\* lowercased email that matches the pattern, and a trimmed message of at
\* least 5 characters.
C8_CreatedRecordsWellFormed ==
  \A i \in 1..Len(feedbackStore) :
    LET r == feedbackStore[i]
    IN hist[r.oid].how = "post"
         => /\ r.name = Trim(r.name) /\ r.name # <<>>
            /\ r.email = Trim(r.email) /\ r.email = ToLowerCase(r.email)
            /\ isValidEmail(Str(r.email))
            /\ r.message = Trim(r.message) /\ Len(r.message) >= 5

\* The fields of an object that are set at creation only.
FixedFields(r) ==
  [id |-> r.id, name |-> r.name, email |-> r.email, message |-> r.message,
   createdAt |-> r.createdAt]

\* C9: while the process runs, a step changes no field of an object of the
\* collection other than votes, changes the votes of at most one object, and
\* changes them only as a vote request on that object's id.
C9_OnlyVotesChange ==
  [][(phase = "listening" /\ phase' = "listening")
       => LET kept == OidsOf(feedbackStore) \cap OidsOf(feedbackStore')
              changed == { o \in kept :
                             ObjectOf(feedbackStore, o) # ObjectOf(feedbackStore', o) }
          IN /\ \A o \in kept :
                  FixedFields(ObjectOf(feedbackStore, o))
                    = FixedFields(ObjectOf(feedbackStore', o))
             /\ Cardinality(changed) <= 1
             /\ \A o \in changed :
                  \E action \in {"upvote", "downvote"} :
                    VoteFeedback(ObjectOf(feedbackStore, o).id, action)]_vars

\* C9's case: one of two created records has been voted on, the other not.
C9_Witness ==
  /\ Len(feedbackStore) = 2
  /\ \A i \in 1..2 : hist[feedbackStore[i].oid].how = "post"
  /\ feedbackStore[1].votes = 0
  /\ feedbackStore[2].votes = 1

\* What a DELETE of an existing id does to memory: exactly one record, one
\* with that id, leaves the array, the others keep their fields and order,
\* and the handler holds the removed record for its response.
DeleteRemovesOne(id) ==
  \E i \in 1..Len(feedbackStore) :
    /\ feedbackStore[i].id = id
    /\ Len(feedbackStore') = Len(feedbackStore) - 1
    /\ \A j \in 1..Len(feedbackStore') :
         feedbackStore'[j] = IF j < i THEN feedbackStore[j] ELSE feedbackStore[j + 1]
    /\ Len(pending') = Len(pending) + 1
    /\ pending'[Len(pending')].rec = feedbackStore[i]

\* While the process runs, an object that has left the array is in no later
\* array, and GET /feedback lists the array's objects and no others.
RemovedStaysOut ==
  /\ (phase = "listening" /\ phase' = "listening")
       => \A o \in 1..Len(hist) :
            o \notin OidsOf(feedbackStore) => o \notin OidsOf(feedbackStore')
  /\ last'.route = "GET /feedback"
       => /\ last'.count = Len(feedbackStore')
          /\ Len(last'.data) = Len(feedbackStore')
          /\ \A k \in 1..Len(last'.data) :
               \E i \in 1..Len(feedbackStore') : last'.data[k] = ToJSON(feedbackStore'[i])

\* C10 as stated: a DELETE of an existing id removes exactly that record,
\* and the request is answered with the record in data; no later list holds it.
C10_DeleteAlwaysReturnsRecord ==
  [][/\ \A id \in RequestIds(feedbackStore) :
          (~UnknownTo(feedbackStore, id) /\ DeleteFeedback(id)) => DeleteRemovesOne(id)
     /\ \A k \in 1..Len(pending) :
          (pending[k].route = "DELETE /feedback/:id" /\ (SaveResolved(k) \/ SaveRejected(k)))
            => /\ last'.status = 200
               /\ last'.data = <<ToJSON(pending[k].rec)>>
     /\ RemovedStaysOut]_vars

\* C10, amended: a DELETE of an existing id removes exactly that record from
\* memory (size - 1, the others unchanged in fields and order); when its file
\* write succeeds it is answered 200 with the record in data, when the write
\* fails it is answered 500 and the record stays removed; and no later list
\* of the running process holds the removed record.
C10_DeleteRemovesAndReturns ==
  [][/\ \A id \in RequestIds(feedbackStore) :
          (~UnknownTo(feedbackStore, id) /\ DeleteFeedback(id)) => DeleteRemovesOne(id)
     /\ \A k \in 1..Len(pending) :
          pending[k].route = "DELETE /feedback/:id"
            => /\ SaveResolved(k)
                    => /\ last'.status = 200
                       /\ last'.data = <<ToJSON(pending[k].rec)>>
                       /\ pending[k].rec.oid \notin OidsOf(feedbackStore')
               /\ SaveRejected(k)
                    => /\ last'.status = 500
                       /\ last'.data = <<>>
                       /\ pending[k].rec.oid \notin OidsOf(feedbackStore')
     /\ RemovedStaysOut]_vars

\* C10's case: the first of two records was deleted and returned, the
\* second is the collection.
C10_Witness ==
  /\ last.route = "DELETE /feedback/:id"
  /\ last.status = 200
  /\ Len(feedbackStore) = 1
  /\ feedbackStore[1].oid = 2
  /\ last.data[1] # ToJSON(feedbackStore[1])

\* A body that passes the three checks of the POST handler: every field
\* truthy, the email matching the pattern, the trimmed message long enough.
PassesValidation(body) ==
  /\ Truthy(body.name) /\ Truthy(body.email) /\ Truthy(body.message)
  /\ isValidEmail(body.email)
  /\ body.message.t = "string"
  /\ Len(Trim(body.message.s)) >= MinMessageLength

\* The bodies of the model that pass validation.
PassingBodies == { body \in Bodies : PassesValidation(body) }

\* C11: a POST /feedback whose body passes validation appends exactly one new
\* record, with votes 0, at the end of the collection, leaves the records
\* before it and their order unchanged (size + 1), and its success response
\* is a 201 that carries that record.
C11_ValidPostAppends ==
  [][/\ \A body \in PassingBodies :
          PostFeedback(body)
            => /\ Len(feedbackStore') = Len(feedbackStore) + 1
               /\ SubSeq(feedbackStore', 1, Len(feedbackStore)) = feedbackStore
               /\ feedbackStore'[Len(feedbackStore')].votes = 0
               /\ feedbackStore'[Len(feedbackStore')].oid \notin OidsOf(feedbackStore)
               /\ Len(pending') = Len(pending) + 1
               /\ pending'[Len(pending')].rec = feedbackStore'[Len(feedbackStore')]
     /\ \A k \in 1..Len(pending) :
          (pending[k].route = "POST /feedback" /\ SaveResolved(k))
            => /\ last'.status = 201
               /\ last'.data = <<ToJSON(pending[k].rec)>>]_vars

\* A success response of a create, vote or delete request.
MutationSucceeded(response) ==
  response.route \in MutatingRoutes /\ response.status \in {200, 201}

\* C12: a success response of a create, vote or delete request is sent only
\* in the step in which that request's fs.writeFile resolves, with the
\* request's change already in memory; a handler that has just started its
\* write sends nothing, and a handler whose write failed answers 500.
C12_SuccessOnlyAfterWrite ==
  [][/\ (MutationSucceeded(last') /\ last' # last)
          => \E k \in 1..Len(pending) :
               /\ SaveResolved(k)
               /\ pending[k].route = last'.route
               /\ last'.data = <<ToJSON(pending[k].rec)>>
               /\ Len(pending') = Len(pending) - 1
               /\ IF pending[k].route = "DELETE /feedback/:id"
                  THEN pending[k].rec.oid \notin OidsOf(feedbackStore')
                  ELSE pending[k].rec.oid \in OidsOf(feedbackStore')
                         => ObjectOf(feedbackStore', pending[k].rec.oid) = pending[k].rec
     /\ Len(pending') > Len(pending) => last' = NoResponse
     /\ \A k \in 1..Len(pending) : SaveRejected(k) => ~MutationSucceeded(last')]_vars

\* C12's case: a vote has been answered with success, its change in memory
\* and a write in the file, while another request's write is still pending.
C12_Witness ==
  /\ last.route = "PUT /feedback/:id/vote"
  /\ last.status = 200
  /\ file.kind = "json"
  /\ Len(pending) = 1
  /\ \E i \in 1..Len(feedbackStore) : last.data = <<ToJSON(feedbackStore[i])>>

\* C13 (taken where the ids created so far are distinct): when every write
\* issued so far has resolved (none failed, none is pending), the file holds
\* exactly the in-memory collection; before the first write, an absent file
\* stands for the empty collection.
C13_FileMirrorsMemory ==
  (phase = "listening" /\ pending = <<>> /\ DistinctIds(hist))
    => \/ file = TextOf(feedbackStore)
       \/ file = Absent /\ feedbackStore = <<>>

\* C14: startServer can always run from a starting process; it leaves the
\* server listening, with the collection the file holds when the file is
\* there and parses (the loaded array serializes to the file's text), and
\* with the empty collection when the file is absent or does not parse.
C14_LoadNeverFatal ==
  /\ [](phase = "starting" => ENABLED StartServer)
  /\ [][StartServer
          => /\ phase' = "listening"
             /\ file' = file
             /\ file.kind = "json" => TextOf(feedbackStore') = file
             /\ file.kind # "json" => feedbackStore' = <<>>]_vars

\* C14's case: a restarted process is listening with a voted record that it
\* loaded from the file.
C14_Witness ==
  /\ restarts = 1
  /\ phase = "listening"
  /\ requests = 2
  /\ Len(feedbackStore) = 1
  /\ hist[feedbackStore[1].oid].how = "load"
  /\ hist[feedbackStore[1].oid].up = 0
  /\ feedbackStore[1].votes = 1

\* C15: a listening server can always answer GET /health; the answer has
\* success true and a feedbackCount equal to the size of the in-memory
\* collection at that moment, and the step changes neither the collection,
\* nor the file, nor the writes in progress.
C15_HealthCountsMemory ==
  /\ []((phase = "listening" /\ last = NoResponse) => ENABLED GetHealth)
  /\ [][GetHealth
          => /\ last'.route = "GET /health"
             /\ last'.status = 200
             /\ last'.success
             /\ last'.count = Len(feedbackStore)
             /\ feedbackStore' = feedbackStore
             /\ file' = file
             /\ pending' = pending]_vars

\* C15's case: health answered with a count of 2 while a create's write is
\* pending and the file holds one record.
C15_Witness ==
  /\ last.route = "GET /health"
  /\ last.count = 2
  /\ Len(feedbackStore) = 2
  /\ Len(pending) = 1
  /\ Len(loadFeedbackData(file)) = 1

\* The actions of the model that are missing or are neither "upvote" nor
\* "downvote".
InvalidActions == Actions \ {"upvote", "downvote"}

\* C16: a vote request whose action is missing or is neither "upvote" nor
\* "downvote" is answered with 400 and changes neither the collection, nor
\* the file, nor the writes in progress, for an id of the collection and for
\* an unknown id alike.
C16_InvalidAction400 ==
  [][\A id \in RequestIds(feedbackStore), action \in InvalidActions :
       VoteFeedback(id, action)
         => /\ last'.route = "PUT /feedback/:id/vote"
            /\ last'.status = 400
            /\ feedbackStore' = feedbackStore
            /\ file' = file
            /\ pending' = pending]_vars

\* C16's case: the vote route's 400 answered while the collection holds a
\* voted record, another request's write is pending and the file has a write.
C16_Witness ==
  /\ last.route = "PUT /feedback/:id/vote"
  /\ last.status = 400
  /\ Len(feedbackStore) = 1
  /\ feedbackStore[1].votes = -1
  /\ Len(pending) = 1
  /\ file.kind = "json"

\* C17: a handler looks up and changes the collection in the one step that
\* runs up to its await, and changes nothing in memory when it resumes.  A
\* vote on an id of the collection changes the votes of exactly one object
\* with that id by its +1 or -1, whatever writes are pending, and leaves
\* every other object as it is; a delete leaves the remaining objects as
\* they are; a resolved or rejected write leaves the whole array as it is.
C17_MutationsAtomic ==
  [][/\ \A id \in RequestIds(feedbackStore), action \in {"upvote", "downvote"} :
          (~UnknownTo(feedbackStore, id) /\ VoteFeedback(id, action))
            => \E i \in 1..Len(feedbackStore) :
                 /\ feedbackStore[i].id = id
                 /\ feedbackStore'
                      = [feedbackStore EXCEPT
                           ![i].votes = IF action = "upvote" THEN @ + 1 ELSE @ - 1]
     /\ \A id \in RequestIds(feedbackStore) :
          DeleteFeedback(id)
            => \A o \in OidsOf(feedbackStore') :
                 /\ o \in OidsOf(feedbackStore)
                 /\ ObjectOf(feedbackStore', o) = ObjectOf(feedbackStore, o)
     /\ \A k \in 1..Len(pending) :
          (SaveResolved(k) \/ SaveRejected(k)) => feedbackStore' = feedbackStore]_vars

\* C17's case: two upvotes of the same created record overlap, both at
\* their await, and the record's votes are 2.
C17_Witness ==
  /\ Len(pending) = 2
  /\ \A k \in 1..2 :
       /\ pending[k].route = "PUT /feedback/:id/vote"
       /\ pending[k].req.action = "upvote"
       /\ pending[k].rec.oid = pending[1].rec.oid
  /\ \E i \in 1..Len(feedbackStore) :
       /\ feedbackStore[i].oid = pending[1].rec.oid
       /\ hist[feedbackStore[i].oid].base = 0
       /\ feedbackStore[i].votes = 2

\* C18: GET /feedback changes neither the contents nor the order of the
\* in-memory collection and writes nothing: the array, the file and the
\* writes in progress are after the step what they were before it.
C18_ListIsReadOnly ==
  [][GetFeedback
       => /\ last'.route = "GET /feedback"
          /\ feedbackStore' = feedbackStore
          /\ file' = file
          /\ pending' = pending]_vars

\* C18's case: a list was answered in an order that is not the collection's
\* order, and the collection is still in insertion order.
C18_Witness ==
  /\ last.route = "GET /feedback"
  /\ Len(feedbackStore) = 2
  /\ feedbackStore[1].oid < feedbackStore[2].oid
  /\ feedbackStore[1].votes < feedbackStore[2].votes
  /\ last.data = <<ToJSON(feedbackStore[2]), ToJSON(feedbackStore[1])>>
====
